---------------------------- MODULE Spec2Model ----------------------------
(***************************************************************************)
(* The wasm-game-of-life host binding (pkg/wasm_game_of_life.js, bundled   *)
(* in docs/0.bootstrap.js) and the Universe engine behind it.              *)
(*                                                                         *)
(* The binding (class Universe, the cached memory views, the string        *)
(* decoding) is translated from the bundled JavaScript.  The engine is the *)
(* compiled wasm module: its exports universe_new, universe_tick,          *)
(* universe_render, __wbg_universe_free, __wbindgen_free and               *)
(* __wbindgen_global_argument_ptr are modelled from the specification.     *)
(***************************************************************************)
EXTENDS Integers, Sequences, FiniteSets, TLC

(***************************************************************************)
(* Bounds of the model.                                                    *)
(***************************************************************************)
\* Universe.new is called with width and height drawn from -1, 0, 1 and MaxArg.
MaxArg == 2
\* At most MaxObjs Universe objects are created by the host.
MaxObjs == 2
\* The engine memory is grown (its buffer replaced) at most MaxGrow times.
MaxGrow == 1
\* Fixture grids with arbitrary content have at most MaxCells cells.
MaxCells == 9
\* Fixture grids holding one pattern have width and height in 1 .. MaxDim.
MaxDim == 5
\* Two Universes built alike have width and height in 1 .. MaxTwin,
MaxTwin == 3
\* and neither is ticked more than MaxLead times more than the other.
MaxLead == 2
\* index.js constructs a Universe of width and height in 1 .. MaxHost.
MaxHost == 4

(***************************************************************************)
(* Cell, and the engine's memory layout.                                   *)
(***************************************************************************)
Dead == 0
Alive == 1
Cell == {Dead, Alive}

\* Code points of the two glyphs and of the line separator.
DeadGlyph == 9723
AliveGlyph == 9724
Newline == 10
\* What TextDecoder emits for a malformed sequence (U+FFFD).
Replacement == 65533

\* Address of the engine's static panic message, and its bytes ("size").
MsgPtr == 0
MsgBytes == <<115, 105, 122, 101>>
\* Address of the two-word return slot (__wbindgen_global_argument_ptr).
RetPtr == 8
\* Address at which the engine's allocator places a rendered string.
StrPtr == 16
\* Content of a byte of a released region: no byte value.
Released == 256
\* The JavaScript values null and undefined, where a number is expected.
null == -1
undefined == -2

Max(a, b) == IF a >= b THEN a ELSE b
Min(a, b) == IF a <= b THEN a ELSE b

\* Length in bytes of the text of a width x height grid: three bytes for a
\* glyph, one for each separator.
TextBytes(width, height) ==
    IF width <= 0 \/ height <= 0 THEN 0
    ELSE 3 * width * height + (height - 1)

\* Size of the modelled part of the engine memory: up to the end of the
\* longest text the Universes at hand can render.
MemSize(bytes) == StrPtr + bytes

(***************************************************************************)
(* UTF-8, as the engine's strings are encoded and as TextDecoder('utf-8')  *)
(* decodes them.                                                           *)
(***************************************************************************)
Utf8Encode(cp) ==
    IF cp < 128 THEN <<cp>>
    ELSE IF cp < 2048 THEN <<192 + (cp \div 64), 128 + (cp % 64)>>
    ELSE IF cp < 65536
         THEN <<224 + (cp \div 4096), 128 + ((cp \div 64) % 64), 128 + (cp % 64)>>
         ELSE <<240 + (cp \div 262144), 128 + ((cp \div 4096) % 64),
                128 + ((cp \div 64) % 64), 128 + (cp % 64)>>

\* The bytes of the code points cps[i], cps[i + 1], ...
RECURSIVE Utf8EncodeFrom(_, _)
Utf8EncodeFrom(cps, i) ==
    IF i > Len(cps) THEN <<>>
    ELSE Utf8Encode(cps[i]) \o Utf8EncodeFrom(cps, i + 1)

Utf8EncodeAll(cps) == Utf8EncodeFrom(cps, 1)

IsCont(b) == b >= 128 /\ b < 192

\* The code points decoded from bytes[i], bytes[i + 1], ...: malformed input
\* decodes to U+FFFD.
RECURSIVE DecodeFrom(_, _)
DecodeFrom(bytes, i) ==
    IF i > Len(bytes) THEN <<>>
    ELSE LET b0 == bytes[i]
             n  == Len(bytes) - i + 1
         IN  IF b0 < 128
             THEN <<b0>> \o DecodeFrom(bytes, i + 1)
             ELSE IF b0 >= 194 /\ b0 < 224 /\ n >= 2 /\ IsCont(bytes[i + 1])
             THEN <<(b0 % 32) * 64 + (bytes[i + 1] % 64)>>
                  \o DecodeFrom(bytes, i + 2)
             ELSE IF b0 >= 224 /\ b0 < 240 /\ n >= 3
                     /\ IsCont(bytes[i + 1]) /\ IsCont(bytes[i + 2])
             THEN <<(b0 % 16) * 4096 + (bytes[i + 1] % 64) * 64
                    + (bytes[i + 2] % 64)>>
                  \o DecodeFrom(bytes, i + 3)
             ELSE IF b0 >= 240 /\ b0 < 245 /\ n >= 4 /\ IsCont(bytes[i + 1])
                     /\ IsCont(bytes[i + 2]) /\ IsCont(bytes[i + 3])
             THEN <<(b0 % 8) * 262144 + (bytes[i + 1] % 64) * 4096
                    + (bytes[i + 2] % 64) * 64 + (bytes[i + 3] % 64)>>
                  \o DecodeFrom(bytes, i + 4)
             ELSE <<Replacement>> \o DecodeFrom(bytes, i + 1)

\* cachedTextDecoder.decode(bytes)
TextDecoder_decode(bytes) == DecodeFrom(bytes, 1)

(***************************************************************************)
(* State.                                                                  *)
(***************************************************************************)
VARIABLES
    memory,                  \* the engine's linear memory: [buffer, bytes]
    universes,               \* the engine's Universe at each pointer
    cachegetUint8Memory,     \* null, or the buffer the cached Uint8Array views
    cachegetUint32Memory,    \* null, or the buffer the cached Uint32Array views
    cachedGlobalArgumentPtr, \* null, or the cached return-slot address
    objs,                    \* the Universe objects of the host, in creation order
    history,                 \* per object: constructor arguments and first grid
    ret,                     \* the last call made by the host and its outcome
    calls,                   \* the engine exports the last call called, in order
    pc,                      \* index.js: the statement the host is at
    frames,                  \* index.js: the animation-frame callbacks requested
    textContent,             \* index.js: pre.textContent
    lead                     \* tick() calls on object 1 less those on object 2

\* The state of index.js, and what is recorded of a pair of Universes.
hostvars == <<pc, frames, textContent, lead>>

vars == <<memory, universes, cachegetUint8Memory, cachegetUint32Memory,
          cachedGlobalArgumentPtr, objs, history, ret, calls, hostvars>>

\* Pointers the engine's allocator hands out for Universes (never 0).
UPtrs == 1 .. MaxObjs

NoUniverse == [live |-> FALSE, width |-> 0, height |-> 0, cells |-> <<>>]

(***************************************************************************)
(* Linear memory and typed-array views.  A view is named by the buffer it  *)
(* was created on; once the memory grows that buffer is detached and the   *)
(* view has length 0.                                                      *)
(***************************************************************************)
WriteBytes(bytes, addr, data) ==
    [i \in 1 .. Len(bytes) |->
        IF i - 1 >= addr /\ i - 1 < addr + Len(data)
        THEN data[i - addr] ELSE bytes[i]]

U32Bytes(n) ==
    <<n % 256, (n \div 256) % 256, (n \div 65536) % 256, (n \div 16777216) % 256>>

\* The engine's memory.grow: same bytes, a new buffer.
Grow(mem, grow) == IF grow THEN [mem EXCEPT !.buffer = @ + 1] ELSE mem

\* ToIntegerOrInfinity of an index argument: undefined and NaN give 0.
ToInteger(x) == IF x = undefined THEN 0 ELSE x

\* JavaScript +, where undefined + n is NaN (an undefined index again).
Plus(a, b) == IF a = undefined \/ b = undefined THEN undefined ELSE a + b

\* view.subarray(begin, end) of a Uint8Array view, as a sequence of bytes.
subarray(view, mem, begin, end) ==
    LET length == IF view = mem.buffer THEN Len(mem.bytes) ELSE 0
        b == Min(Max(ToInteger(begin), 0), length)
        e == Min(Max(ToInteger(end), 0), length)
    IN  SubSeq(mem.bytes, b + 1, e)

\* view[index] of a Uint32Array view (little-endian words).
ReadU32(view, mem, index) ==
    IF view # mem.buffer \/ index = undefined
       \/ index < 0 \/ 4 * index + 4 > Len(mem.bytes)
    THEN undefined
    ELSE mem.bytes[4 * index + 1] + 256 * mem.bytes[4 * index + 2]
         + 65536 * mem.bytes[4 * index + 3] + 16777216 * mem.bytes[4 * index + 4]

\* retptr / 4 is a Uint32Array index only for a word-aligned address.
WordIndex(ptr) == IF ptr % 4 = 0 THEN ptr \div 4 ELSE undefined

(***************************************************************************)
(* The binding's cached views and helpers.                                 *)
(***************************************************************************)
\* A forgotten buffer comparison: the cached view is returned as it is.
getUint8Memory_stale(cache, mem) == IF cache = null THEN mem.buffer ELSE cache

\* getUint8Memory(): the view returned, which is also the cache afterwards.
getUint8Memory(cache, mem) ==
    IF cache = null \/ cache # mem.buffer THEN mem.buffer ELSE cache

\* subarray(ptr, len) in place of subarray(ptr, ptr + len).
getStringFromWasm_len(cache, mem, ptr, len) ==
    LET view == getUint8Memory(cache, mem)
    IN  [text |-> TextDecoder_decode(subarray(view, mem, ptr, len)),
         cache |-> view]

\* getStringFromWasm(ptr, len): the decoded text and the Uint8 cache afterwards.
getStringFromWasm(cache, mem, ptr, len) ==
    LET view == getUint8Memory(cache, mem)
    IN  [text |-> TextDecoder_decode(subarray(view, mem, ptr, Plus(ptr, len))),
         cache |-> view]

\* The engine export behind globalArgumentPtr().
wbindgen_global_argument_ptr == RetPtr

\* globalArgumentPtr(): the address returned, which is also the cache afterwards.
globalArgumentPtr(cache) ==
    IF cache = null THEN wbindgen_global_argument_ptr ELSE cache

\* A forgotten buffer comparison: the cached Uint32Array is returned as it is.
getUint32Memory_stale(cache, mem) == IF cache = null THEN mem.buffer ELSE cache

\* getUint32Memory(): the view returned, which is also the cache afterwards.
getUint32Memory(cache, mem) ==
    IF cache = null \/ cache # mem.buffer THEN mem.buffer ELSE cache

\* __wbindgen_throw(ptr, len): the message of the Error thrown.
wbindgen_throw(cache, mem, ptr, len) == getStringFromWasm(cache, mem, ptr, len)

(***************************************************************************)
(* The engine: the Universe of the compiled module.                        *)
(***************************************************************************)
\* The initial pattern: a fixed rule of the cell's row-major index.
InitialCell(i) == IF i % 2 = 0 \/ i % 7 = 0 THEN Alive ELSE Dead

\* Row-major index (from 0) of the cell at column col of row row.
get_index(u, row, col) == row * u.width + col

\* Neighbours counted only inside the grid: nothing beyond an edge.
live_neighbor_count_edges(u, row, col) ==
    LET n(dr, dc) ==
            IF row + dr < 0 \/ row + dr >= u.height
               \/ col + dc < 0 \/ col + dc >= u.width
            THEN 0
            ELSE u.cells[get_index(u, row + dr, col + dc) + 1]
    IN  n(-1, -1) + n(-1, 0) + n(-1, 1) + n(0, -1) + n(0, 1)
        + n(1, -1) + n(1, 0) + n(1, 1)

\* Live cells among the 8 neighbours, rows and columns wrapping around.
live_neighbor_count(u, row, col) ==
    LET n(dr, dc) ==
            u.cells[get_index(u, (row + dr) % u.height, (col + dc) % u.width) + 1]
    IN  n(-1, -1) + n(-1, 0) + n(-1, 1) + n(0, -1) + n(0, 1)
        + n(1, -1) + n(1, 0) + n(1, 1)

\* Survival with exactly 2 live neighbours only.
next_cell_strict(cell, n) ==
    IF cell = Alive /\ n = 2 THEN Alive
    ELSE IF cell = Dead /\ n = 3 THEN Alive
    ELSE Dead

\* Conway's rule for one cell with n live neighbours.
next_cell(cell, n) ==
    IF cell = Alive /\ n < 2 THEN Dead
    ELSE IF cell = Alive /\ (n = 2 \/ n = 3) THEN Alive
    ELSE IF cell = Alive /\ n > 3 THEN Dead
    ELSE IF cell = Dead /\ n = 3 THEN Alive
    ELSE cell

\* The next generation, computed into a new buffer from the current one.
next_cells(u) ==
    [i \in 1 .. Len(u.cells) |->
        next_cell(u.cells[i],
                  live_neighbor_count(u, (i - 1) \div u.width, (i - 1) % u.width))]

\* The text of a Universe: its rows, one glyph a cell, separated by newlines.
render_text(u) ==
    IF u.width <= 0 \/ u.height <= 0 THEN <<>>
    ELSE [p \in 1 .. u.height * (u.width + 1) - 1 |->
            LET row == (p - 1) \div (u.width + 1)
                col == (p - 1) % (u.width + 1)
            IN  IF col = u.width THEN Newline
                ELSE IF u.cells[get_index(u, row, col) + 1] = Alive
                     THEN AliveGlyph ELSE DeadGlyph]

\* A pointer the engine can act on: not null, and of a Universe not released.
\* A call with any other pointer ends in __wbindgen_throw.
ValidPtr(us, ptr) == ptr \in DOMAIN us /\ us[ptr].live

\* The first content taken from what lies at the address of the Universe: it
\* differs from one pointer to the next.
universe_build_seeded(mem, us, width, height, grow) ==
    LET p == CHOOSE q \in DOMAIN us :
                 ~us[q].live /\ \A r \in DOMAIN us : r < q => us[r].live
        n == IF width > 0 /\ height > 0 THEN width * height ELSE 0
    IN  [thrown |-> FALSE, ptr |-> p, memory |-> Grow(mem, grow),
         universes |-> [us EXCEPT ![p] =
             [live |-> TRUE, width |-> width, height |-> height,
              cells |-> [i \in 1 .. n |-> InitialCell(i - 1 + p)]]]]

\* The Universe built for (width, height), at the first free pointer.
universe_build(mem, us, width, height, grow) ==
    LET p == CHOOSE q \in DOMAIN us :
                 ~us[q].live /\ \A r \in DOMAIN us : r < q => us[r].live
        n == IF width > 0 /\ height > 0 THEN width * height ELSE 0
    IN  [thrown |-> FALSE, ptr |-> p, memory |-> Grow(mem, grow),
         universes |-> [us EXCEPT ![p] =
             [live |-> TRUE, width |-> width, height |-> height,
              cells |-> [i \in 1 .. n |-> InitialCell(i - 1)]]]]

\* No guard on the arguments: a Universe is built whatever they are.
universe_new_unguarded(mem, us, width, height, grow) ==
    universe_build(mem, us, width, height, grow)

\* universe_new(width, height)
universe_new(mem, us, width, height, grow) ==
    IF width <= 0 \/ height <= 0
    THEN [thrown |-> TRUE, ptr |-> 0, memory |-> mem, universes |-> us]
    ELSE universe_build(mem, us, width, height, grow)

\* universe_tick(ptr)
universe_tick(mem, us, ptr, grow) ==
    IF ~ValidPtr(us, ptr)
    THEN [thrown |-> TRUE, memory |-> mem, universes |-> us]
    ELSE [thrown |-> FALSE, memory |-> Grow(mem, grow),
          universes |-> [us EXCEPT ![ptr].cells = next_cells(us[ptr])]]

\* universe_render(retptr, ptr): the string is placed at StrPtr and its
\* address and length in bytes are written to the two words at retptr.
universe_render(mem, us, retptr, ptr, grow) ==
    IF ~ValidPtr(us, ptr)
    THEN [thrown |-> TRUE, memory |-> mem]
    ELSE LET data == Utf8EncodeAll(render_text(us[ptr]))
             slot == U32Bytes(StrPtr) \o U32Bytes(Len(data))
             m    == Grow(mem, grow)
         IN  [thrown |-> FALSE,
              memory |-> [m EXCEPT !.bytes =
                  WriteBytes(WriteBytes(m.bytes, StrPtr, data), retptr, slot)]]

\* __wbg_universe_free(ptr)
wbg_universe_free(us, ptr) ==
    IF ~ValidPtr(us, ptr)
    THEN [thrown |-> TRUE, universes |-> us]
    ELSE [thrown |-> FALSE, universes |-> [us EXCEPT ![ptr] = NoUniverse]]

\* __wbindgen_free(ptr, size): the region holds no content afterwards.
wbindgen_free(mem, ptr, size) ==
    LET a == ToInteger(ptr)
        n == ToInteger(size)
    IN  [mem EXCEPT !.bytes =
            [i \in 1 .. Len(mem.bytes) |->
                IF i - 1 >= a /\ i - 1 < a + n THEN Released ELSE mem.bytes[i]]]

(***************************************************************************)
(* class Universe of the binding.  Each method is given the state it reads *)
(* and yields its outcome and the state it leaves.                         *)
(***************************************************************************)
\* A call of an export of the engine with its arguments.
Call(fn, args) == [fn |-> fn, args |-> args]

\* The outcome res of a method that called the exports before first.
Logged(before, res) == [res EXCEPT !.calls = before \o @]

\* Universe.__wrap(ptr)
Universe_wrap(ptr) == [ptr |-> ptr]

\* The arguments handed to the engine in the other order.
Universe_new_swapped(mem, us, width, height, grow) ==
    LET r == universe_new(mem, us, height, width, grow)
    IN  [thrown |-> r.thrown, obj |-> Universe_wrap(r.ptr),
         memory |-> r.memory, universes |-> r.universes,
         calls |-> <<Call("universe_new", <<height, width>>)>>]

\* Universe.new(width, height)
Universe_new(mem, us, width, height, grow) ==
    LET r == universe_new(mem, us, width, height, grow)
    IN  [thrown |-> r.thrown, obj |-> Universe_wrap(r.ptr),
         memory |-> r.memory, universes |-> r.universes,
         calls |-> <<Call("universe_new", <<width, height>>)>>]

\* One pointer kept for the module in place of this.ptr: every object acts
\* on the Universe constructed first.
Universe_tick_first(mem, us, obj, grow) ==
    LET r == universe_tick(mem, us, 1, grow)
    IN  [thrown |-> r.thrown, memory |-> r.memory, universes |-> r.universes,
         calls |-> <<Call("universe_tick", <<1>>)>>]

\* The object handed to the engine in place of its pointer: the engine
\* receives 0.
Universe_tick_this(mem, us, obj, grow) ==
    LET r == universe_tick(mem, us, 0, grow)
    IN  [thrown |-> r.thrown, memory |-> r.memory, universes |-> r.universes,
         calls |-> <<Call("universe_tick", <<0>>)>>]

\* tick()
Universe_tick(mem, us, obj, grow) ==
    LET r == universe_tick(mem, us, obj.ptr, grow)
    IN  [thrown |-> r.thrown, memory |-> r.memory, universes |-> r.universes,
         calls |-> <<Call("universe_tick", <<obj.ptr>>)>>]

\* render(), once the string was read: it is released and returned.
render_return(r, retptr, view, rustptr, rustlen, realRet) ==
    [thrown |-> FALSE, text |-> realRet.text,
     memory |-> wbindgen_free(r.memory, rustptr, rustlen),
     c8 |-> realRet.cache, c32 |-> view, cgap |-> retptr,
     calls |-> <<Call("__wbindgen_free", <<rustptr, rustlen>>)>>]

\* The string released before it is decoded: the text is read from the
\* region once it holds no content.
render_string_freed(c8, r, retptr, view, rustptr, rustlen) ==
    render_return(r, retptr, view, rustptr, rustlen,
                  getStringFromWasm(c8, wbindgen_free(r.memory, rustptr, rustlen),
                                    rustptr, rustlen))

\* render(), once the two words of the return slot were read.
render_string(c8, r, retptr, view, rustptr, rustlen) ==
    render_return(r, retptr, view, rustptr, rustlen,
                  getStringFromWasm(c8, r.memory, rustptr, rustlen))

\* render(), once the Uint32 view was obtained.
render_words(c8, r, retptr, view) ==
    render_string(c8, r, retptr, view,
                  ReadU32(view, r.memory, WordIndex(retptr)),
                  ReadU32(view, r.memory, Plus(WordIndex(retptr), 1)))

\* render(), once the engine's universe_render returned r.
render_result(c8, c32, r, retptr) ==
    IF r.thrown
    THEN [thrown |-> TRUE, text |-> <<>>, memory |-> r.memory,
          c8 |-> c8, c32 |-> c32, cgap |-> retptr, calls |-> <<>>]
    ELSE render_words(c8, r, retptr, getUint32Memory(c32, r.memory))

\* render(), once globalArgumentPtr() returned retptr.
render_call(c8, c32, mem, us, obj, grow, retptr) ==
    Logged(<<Call("universe_render", <<retptr, obj.ptr>>)>>,
           render_result(c8, c32, universe_render(mem, us, retptr, obj.ptr, grow),
                         retptr))

\* render()
Universe_render(c8, c32, cgap, mem, us, obj, grow) ==
    Logged(IF cgap = null
           THEN <<Call("__wbindgen_global_argument_ptr", <<>>)>> ELSE <<>>,
           render_call(c8, c32, mem, us, obj, grow, globalArgumentPtr(cgap)))

\* freeUniverse(ptr)
freeUniverse(us, ptr) ==
    LET r == wbg_universe_free(us, ptr)
    IN  [thrown |-> r.thrown, universes |-> r.universes,
         calls |-> <<Call("__wbg_universe_free", <<ptr>>)>>]

\* free()
Universe_free(us, obj) ==
    LET ptr == obj.ptr
        r   == freeUniverse(us, ptr)
    IN  [thrown |-> r.thrown, obj |-> [obj EXCEPT !.ptr = 0],
         universes |-> r.universes, calls |-> r.calls]

(***************************************************************************)
(* The calls of the host.  A call that the engine rejects ends in          *)
(* __wbindgen_throw, which decodes the engine's message.                   *)
(***************************************************************************)
Args == {-1, 0, 1, MaxArg}

CanGrow(grow) == grow => memory.buffer < MaxGrow

Thrown(c8, mem) == wbindgen_throw(c8, mem, MsgPtr, Len(MsgBytes))

\* The record of a call: again tells that the call before it was the same
\* call on the same object and that neither threw.
Outcome(op, o, thrown, value) ==
    [op |-> op, obj |-> o, thrown |-> thrown, value |-> value,
     again |-> (ret.op = op /\ ret.obj = o /\ ~ret.thrown /\ ~thrown)]

NoCall == [op |-> "none", obj |-> 0, thrown |-> FALSE, value |-> <<>>, again |-> FALSE]

\* What is remembered of an object whose Universe was released.
NoHistory == [args |-> <<0, 0>>, origin |-> <<>>]

\* The state left by a call of new that returned r (t: what
\* __wbindgen_throw yields when the engine rejects the call).
NewDone(width, height, r, t) ==
    /\ calls' = r.calls
    /\ memory' = r.memory
    /\ universes' = r.universes
    /\ IF r.thrown
       THEN /\ cachegetUint8Memory' = t.cache
            /\ ret' = Outcome("new", 0, TRUE, t.text)
            /\ UNCHANGED <<objs, history>>
       ELSE /\ objs' = Append(objs, r.obj)
            /\ history' = Append(history,
                   [args |-> <<width, height>>,
                    origin |-> r.universes[r.obj.ptr].cells])
            /\ ret' = Outcome("new", Len(objs) + 1, FALSE, <<>>)
            /\ UNCHANGED cachegetUint8Memory
    /\ UNCHANGED <<cachegetUint32Memory, cachedGlobalArgumentPtr>>

New(width, height, grow) ==
    /\ Len(objs) < MaxObjs
    /\ CanGrow(grow)
    /\ NewDone(width, height,
               Universe_new(memory, universes, width, height, grow),
               Thrown(cachegetUint8Memory, memory))

TickDone(o, r, t) ==
    /\ calls' = r.calls
    /\ memory' = r.memory
    /\ universes' = r.universes
    /\ IF r.thrown
       THEN /\ cachegetUint8Memory' = t.cache
            /\ ret' = Outcome("tick", o, TRUE, t.text)
       ELSE /\ ret' = Outcome("tick", o, FALSE, <<>>)
            /\ UNCHANGED cachegetUint8Memory
    /\ UNCHANGED <<cachegetUint32Memory, cachedGlobalArgumentPtr, objs, history>>

Tick(o, grow) ==
    /\ CanGrow(grow)
    /\ TickDone(o, Universe_tick(memory, universes, objs[o], grow),
                Thrown(cachegetUint8Memory, memory))

RenderDone(o, r, t) ==
    /\ calls' = r.calls
    /\ memory' = r.memory
    /\ cachegetUint32Memory' = r.c32
    /\ cachedGlobalArgumentPtr' = r.cgap
    /\ IF r.thrown
       THEN /\ cachegetUint8Memory' = t.cache
            /\ ret' = Outcome("render", o, TRUE, t.text)
       ELSE /\ cachegetUint8Memory' = r.c8
            /\ ret' = Outcome("render", o, FALSE, r.text)
    /\ UNCHANGED <<universes, objs, history>>

Render(o, grow) ==
    /\ CanGrow(grow)
    /\ RenderDone(o, Universe_render(cachegetUint8Memory, cachegetUint32Memory,
                                     cachedGlobalArgumentPtr, memory, universes,
                                     objs[o], grow),
                  Thrown(cachegetUint8Memory, memory))

FreeDone(o, r, t) ==
    /\ calls' = r.calls
    /\ universes' = r.universes
    /\ objs' = [objs EXCEPT ![o] = r.obj]
    /\ IF r.thrown
       THEN /\ cachegetUint8Memory' = t.cache
            /\ ret' = Outcome("free", o, TRUE, t.text)
       ELSE /\ ret' = Outcome("free", o, FALSE, <<>>)
            /\ UNCHANGED cachegetUint8Memory
    /\ history' = [history EXCEPT ![o] = IF r.thrown THEN @ ELSE NoHistory]
    /\ UNCHANGED <<memory, cachegetUint32Memory, cachedGlobalArgumentPtr>>

Free(o) ==
    FreeDone(o, Universe_free(universes, objs[o]),
             Thrown(cachegetUint8Memory, memory))

(***************************************************************************)
(* The program: the module is loaded, and the host calls the binding.      *)
(***************************************************************************)
\* index.js is not running, and no pair of Universes is followed.
NoHost == pc = "none" /\ frames = 0 /\ textContent = <<>> /\ lead = 0

InitMemory(size) ==
    [buffer |-> 0,
     bytes |-> [i \in 1 .. size |->
                  IF i - 1 >= MsgPtr /\ i - 1 < MsgPtr + Len(MsgBytes)
                  THEN MsgBytes[i - MsgPtr]
                  ELSE IF i - 1 >= StrPtr THEN Released ELSE 0]]

InitModule(size) ==
    /\ memory = InitMemory(size)
    /\ cachegetUint8Memory = null
    /\ cachegetUint32Memory = null
    /\ cachedGlobalArgumentPtr = null

Init ==
    /\ InitModule(MemSize(TextBytes(MaxArg, MaxArg)))
    /\ universes = [p \in UPtrs |-> NoUniverse]
    /\ objs = <<>>
    /\ history = <<>>
    /\ ret = NoCall
    /\ calls = <<>>
    /\ NoHost

\* Any host: every method is called on every object, in any order.
Next ==
    \/ \E width \in Args, height \in Args, grow \in BOOLEAN :
           New(width, height, grow) /\ UNCHANGED hostvars
    \/ \E o \in 1 .. Len(objs), grow \in BOOLEAN :
           Tick(o, grow) /\ UNCHANGED hostvars
    \/ \E o \in 1 .. Len(objs), grow \in BOOLEAN :
           Render(o, grow) /\ UNCHANGED hostvars
    \/ \E o \in 1 .. Len(objs) : Free(o) /\ UNCHANGED hostvars

Spec == Init /\ [][Next]_vars

(***************************************************************************)
(* Fixtures.  The content a Universe starts with is the engine's choice,   *)
(* so the rules of tick() and render() are checked from every content: one *)
(* Universe has been constructed, and the host calls tick() and render().  *)
(***************************************************************************)
Constructed(width, height, cells) ==
    /\ InitModule(MemSize(TextBytes(width, height)))
    /\ universes = [p \in UPtrs |->
                      IF p = 1
                      THEN [live |-> TRUE, width |-> width, height |-> height,
                            cells |-> cells]
                      ELSE NoUniverse]
    /\ objs = <<Universe_wrap(1)>>
    /\ history = <<[args |-> <<width, height>>, origin |-> cells]>>
    /\ ret = [NoCall EXCEPT !.op = "new", !.obj = 1]
    /\ calls = <<Call("universe_new", <<width, height>>)>>
    /\ NoHost

NextFixture ==
    \/ \E o \in 1 .. Len(objs) : Tick(o, FALSE) /\ UNCHANGED hostvars
    \/ \E o \in 1 .. Len(objs) : Render(o, FALSE) /\ UNCHANGED hostvars

\* Every grid of at most MaxCells cells.
InitGrid ==
    \E width \in 1 .. MaxCells, height \in 1 .. MaxCells :
        /\ width * height <= MaxCells
        /\ \E cells \in [1 .. width * height -> Cell] :
               Constructed(width, height, cells)

SpecGrid == InitGrid /\ [][NextFixture]_vars

\* The grid of width x height whose Alive cells are those at the <<column, row>>
\* positions in alive.
GridOf(width, height, alive) ==
    [i \in 1 .. width * height |->
        IF <<(i - 1) % width, (i - 1) \div width>> \in alive THEN Alive ELSE Dead]

\* Three cells in a row (across) or in a column around <<x, y>>.
BlinkerAt(width, height, x, y, across) ==
    IF across THEN {<<(x + d) % width, y>> : d \in -1 .. 1}
    ELSE {<<x, (y + d) % height>> : d \in -1 .. 1}

\* The 2x2 block whose top-left cell is <<x, y>>.
BlockAt(width, height, x, y) ==
    {<<(x + dx) % width, (y + dy) % height>> : dx \in 0 .. 1, dy \in 0 .. 1}

\* Every grid of width and height up to MaxDim holding one blinker or one block.
InitPattern ==
    \E width \in 1 .. MaxDim, height \in 1 .. MaxDim :
        \E x \in 0 .. width - 1, y \in 0 .. height - 1 :
            \E alive \in {BlinkerAt(width, height, x, y, TRUE),
                          BlinkerAt(width, height, x, y, FALSE),
                          BlockAt(width, height, x, y)} :
                Constructed(width, height, GridOf(width, height, alive))

SpecPattern == InitPattern /\ [][NextFixture]_vars

(***************************************************************************)
(* Two Universes built alike: the host constructs a Universe, then a       *)
(* second one with the same width and height, and calls tick() and         *)
(* render() on either in any order.                                        *)
(***************************************************************************)
InitTwin ==
    /\ InitModule(MemSize(TextBytes(MaxTwin, MaxTwin)))
    /\ universes = [p \in UPtrs |-> NoUniverse]
    /\ objs = <<>>
    /\ history = <<>>
    /\ ret = NoCall
    /\ calls = <<>>
    /\ NoHost

TwinNew(width, height, grow) ==
    /\ Len(objs) < 2
    /\ Len(objs) = 1 => history[1].args = <<width, height>>
    /\ New(width, height, grow)
    /\ UNCHANGED hostvars

TwinTick(o, grow) ==
    /\ o \in {1, 2}
    /\ (lead + (IF o = 1 THEN 1 ELSE -1)) \in -MaxLead .. MaxLead
    /\ Tick(o, grow)
    /\ lead' = lead + (IF o = 1 THEN 1 ELSE -1)
    /\ UNCHANGED <<pc, frames, textContent>>

TwinRender(o, grow) == Render(o, grow) /\ UNCHANGED hostvars

NextTwin ==
    \/ \E width \in 1 .. MaxTwin, height \in 1 .. MaxTwin, grow \in BOOLEAN :
           TwinNew(width, height, grow)
    \/ \E o \in 1 .. Len(objs), grow \in BOOLEAN : TwinTick(o, grow)
    \/ \E o \in 1 .. Len(objs), grow \in BOOLEAN : TwinRender(o, grow)

SpecTwin == InitTwin /\ [][NextTwin]_vars

(***************************************************************************)
(* index.js: the script constructs a Universe and requests an animation    *)
(* frame for renderLoop; renderLoop displays render(), calls tick() and    *)
(* requests the next frame.  pc is the statement to run next: "new",       *)
(* "render", "tick", "request", or "idle" while no script runs.  A call    *)
(* that throws ends the script that made it.                               *)
(***************************************************************************)
\* renderLoop calling tick() before it displays render().
After_swapped(stmt) ==
    CASE stmt = "new" -> "request"
      [] stmt = "frame" -> "tick"
      [] stmt = "tick" -> "render"
      [] stmt = "render" -> "request"
      [] OTHER -> "idle"

\* The statement that follows stmt ("frame": the browser calls renderLoop).
After(stmt) ==
    CASE stmt = "new" -> "request"
      [] stmt = "frame" -> "render"
      [] stmt = "render" -> "tick"
      [] stmt = "tick" -> "request"
      [] OTHER -> "idle"

InitHost ==
    /\ InitModule(MemSize(TextBytes(MaxHost, MaxHost)))
    /\ universes = [p \in UPtrs |-> NoUniverse]
    /\ objs = <<>>
    /\ history = <<>>
    /\ ret = NoCall
    /\ calls = <<>>
    /\ pc = "new" /\ frames = 0 /\ textContent = <<>> /\ lead = 0

\* const universe = Universe.new(64, 64), with the size scaled down.
HostNew(width, height, grow) ==
    /\ pc = "new"
    /\ New(width, height, grow)
    /\ pc' = IF ret'.thrown THEN "idle" ELSE After("new")
    /\ UNCHANGED <<frames, textContent, lead>>

\* requestAnimationFrame(renderLoop)
HostRequest ==
    /\ pc = "request"
    /\ frames' = frames + 1
    /\ pc' = After("request")
    /\ UNCHANGED <<memory, universes, cachegetUint8Memory, cachegetUint32Memory,
                   cachedGlobalArgumentPtr, objs, history, ret, calls,
                   textContent, lead>>

\* The browser runs a requested callback: renderLoop begins.
HostFrame ==
    /\ pc = "idle" /\ frames > 0
    /\ frames' = frames - 1
    /\ pc' = After("frame")
    /\ UNCHANGED <<memory, universes, cachegetUint8Memory, cachegetUint32Memory,
                   cachedGlobalArgumentPtr, objs, history, ret, calls,
                   textContent, lead>>

\* pre.textContent = universe.render()
HostRender(grow) ==
    /\ pc = "render"
    /\ Render(1, grow)
    /\ textContent' = IF ret'.thrown THEN textContent ELSE ret'.value
    /\ pc' = IF ret'.thrown THEN "idle" ELSE After("render")
    /\ UNCHANGED <<frames, lead>>

\* universe.tick()
HostTick(grow) ==
    /\ pc = "tick"
    /\ Tick(1, grow)
    /\ pc' = IF ret'.thrown THEN "idle" ELSE After("tick")
    /\ UNCHANGED <<frames, textContent, lead>>

NextHost ==
    \/ \E width \in 1 .. MaxHost, height \in 1 .. MaxHost, grow \in BOOLEAN :
           HostNew(width, height, grow)
    \/ HostRequest
    \/ HostFrame
    \/ \E grow \in BOOLEAN : HostRender(grow)
    \/ \E grow \in BOOLEAN : HostTick(grow)

SpecHost == InitHost /\ [][NextHost]_vars

(***************************************************************************)
(* What the properties below speak of.                                     *)
(***************************************************************************)
ObjIds == 1 .. Len(objs)

\* The objects whose Universe exists in the engine.
LiveObjs == {o \in ObjIds : ValidPtr(universes, objs[o].ptr)}

UniverseOf(o) == universes[objs[o].ptr]

\* The step just taken was the call op on object o.
Called(op, o) == ret'.op = op /\ ret'.obj = o

\* The last call was op on object o.
LastCall(op, o) == ret.op = op /\ ret.obj = o

Columns(u) == 0 .. u.width - 1
Rows(u) == 0 .. u.height - 1

\* The 8 offsets <<dx, dy>> around a cell.
Offsets8 == {d \in (-1 .. 1) \X (-1 .. 1) : d # <<0, 0>>}

\* Whether the cell at column x of row y is Alive, x and y taken modulo the
\* width and the height.
AliveAt(u, x, y) == u.cells[(y % u.height) * u.width + (x % u.width) + 1] = Alive

\* The number of offsets around <<x, y>> that lead to an Alive cell.
LiveNeighbours(u, x, y) ==
    Cardinality({d \in Offsets8 : AliveAt(u, x + d[1], y + d[2])})

\* Conway's rule (B3/S23) as a table.
Conway(cell, n) ==
    IF (cell = Alive /\ n \in {2, 3}) \/ (cell = Dead /\ n = 3) THEN Alive ELSE Dead

\* The <<column, row>> positions of the Alive cells of a width-wide grid.
AliveSet(width, cells) ==
    {<<(i - 1) % width, (i - 1) \div width>> : i \in {j \in 1 .. Len(cells) : cells[j] = Alive}}

AllCells(width, height) == (0 .. width - 1) \X (0 .. height - 1)

(***************************************************************************)
(* C1.  tick() replaces every cell by Conway's rule applied to the cell    *)
(* and its live-neighbour count in the generation before the call: Alive   *)
(* with 2 or 3 live neighbours stays Alive, Dead with exactly 3 becomes    *)
(* Alive, every other cell is Dead afterwards; all counts are taken in the *)
(* grid as it was before the call.                                         *)
(***************************************************************************)
C1_TickIsConway ==
    [][\A o \in ObjIds :
          (Called("tick", o) /\ o \in LiveObjs) =>
              LET u == UniverseOf(o)
                  v == universes'[objs[o].ptr]
              IN  /\ Len(v.cells) = Len(u.cells)
                  /\ \A x \in Columns(u), y \in Rows(u) :
                         v.cells[y * u.width + x + 1]
                             = Conway(u.cells[y * u.width + x + 1],
                                      LiveNeighbours(u, x, y))]_vars

\* A tick() has run on a grid of 4 columns and 2 rows; of the cells it
\* started with one was born, one died and one survived.
C1_Witness ==
    \E o \in LiveObjs :
        LET u == UniverseOf(o)
            was == history[o].origin
        IN  /\ LastCall("tick", o) /\ ~ret.thrown
            /\ u.width = 4 /\ u.height = 2
            /\ \E i, j, k \in 1 .. Len(u.cells) :
                   /\ was[i] = Dead /\ u.cells[i] = Alive
                   /\ was[j] = Alive /\ u.cells[j] = Dead
                   /\ was[k] = Alive /\ u.cells[k] = Alive

(***************************************************************************)
(* C3.  The live-neighbour count tick() uses for the cell at (x, y) is the *)
(* number of the 8 offsets around (x, y) that lead to an Alive cell, with  *)
(* columns taken modulo the width and rows modulo the height, on every     *)
(* row and column; an Alive cell at (width-1, height-1) counts for (0, 0). *)
(***************************************************************************)
C3_NeighbourCountWraps ==
    \A o \in LiveObjs :
        LET u == UniverseOf(o)
        IN  /\ \A x \in Columns(u), y \in Rows(u) :
                   live_neighbor_count(u, y, x) = LiveNeighbours(u, x, y)
            /\ AliveAt(u, u.width - 1, u.height - 1)
                   => live_neighbor_count(u, 0, 0) >= 1

\* A 3x3 grid whose only Alive cell is the last one: it is the one live
\* neighbour of the cell at (0, 0).
C3_Witness ==
    \E o \in LiveObjs :
        LET u == UniverseOf(o)
        IN  /\ u.width = 3 /\ u.height = 3
            /\ AliveSet(u.width, u.cells) = {<<2, 2>>}
            /\ live_neighbor_count(u, 0, 0) = 1

(***************************************************************************)
(* C2.  The column of three Alive cells (1,0),(1,1),(1,2) and the row of   *)
(* three (0,1),(1,1),(2,1).                                                *)
(***************************************************************************)
Column3 == {<<1, 0>>, <<1, 1>>, <<1, 2>>}
Row3 == {<<0, 1>>, <<1, 1>>, <<2, 1>>}

\* Object o was constructed width x height with exactly the cells alive.
StartedAs(o, width, height, alive) ==
    /\ history[o].args = <<width, height>>
    /\ history[o].origin = GridOf(width, height, alive)

\* tick() on object o takes the Alive cells from exactly from to exactly to.
TickTakes(o, from, to) ==
    (Called("tick", o) /\ o \in LiveObjs
     /\ AliveSet(UniverseOf(o).width, UniverseOf(o).cells) = from)
        => AliveSet(UniverseOf(o).width, universes'[objs[o].ptr].cells) = to

\* C2 as stated: in the 3x3 Universe started as Column3, the first tick()
\* leaves exactly Row3 Alive and the second exactly Column3 again.
C2_Blinker3x3 ==
    [][\A o \in ObjIds :
          StartedAs(o, 3, 3, Column3) =>
              /\ TickTakes(o, Column3, Row3)
              /\ TickTakes(o, Row3, Column3)]_vars

\* C2, amended: in a Universe of width and height at least 4 started as
\* Column3, tick() takes Column3 to exactly Row3 and Row3 to exactly Column3,
\* so the Alive cells are Row3 after one tick() and Column3 after two; in
\* the 3x3 Universe started as Column3 the first tick() leaves all nine
\* cells Alive and the second leaves none.
C2_BlinkerFrom4x4 ==
    /\ [](\A o \in LiveObjs :
            /\ \A width, height \in 4 .. MaxDim :
                   StartedAs(o, width, height, Column3) =>
                       AliveSet(width, UniverseOf(o).cells) \in {Column3, Row3}
            /\ StartedAs(o, 3, 3, Column3) =>
                   AliveSet(3, UniverseOf(o).cells) \in {Column3, AllCells(3, 3), {}})
    /\ [][\A o \in ObjIds :
            /\ \A width, height \in 4 .. MaxDim :
                   StartedAs(o, width, height, Column3) =>
                       /\ TickTakes(o, Column3, Row3)
                       /\ TickTakes(o, Row3, Column3)
            /\ StartedAs(o, 3, 3, Column3) =>
                   /\ TickTakes(o, Column3, AllCells(3, 3))
                   /\ TickTakes(o, AllCells(3, 3), {})]_vars

\* tick() has run on the 4x4 Universe started as Column3 and left Row3.
C2_Witness ==
    \E o \in LiveObjs :
        /\ StartedAs(o, 4, 4, Column3)
        /\ LastCall("tick", o) /\ ~ret.thrown
        /\ AliveSet(4, UniverseOf(o).cells) = Row3

(***************************************************************************)
(* C7.  Blinkers: three cells in line, and the same three turned a quarter *)
(* about the middle cell.                                                  *)
(***************************************************************************)
\* The blinkers a set of Alive cells is: <<x, y, across>> for each middle cell
\* and direction that give exactly these three cells.
BlinkersOf(width, height, alive) ==
    {b \in (0 .. width - 1) \X (0 .. height - 1) \X BOOLEAN :
        /\ Cardinality(alive) = 3
        /\ alive = BlinkerAt(width, height, b[1], b[2], b[3])}

\* The blinkers turned a quarter about their middle cell.
Turned(width, height, alive) ==
    {BlinkerAt(width, height, b[1], b[2], ~b[3]) :
        b \in BlinkersOf(width, height, alive)}

\* Object o started as a blinker and tick() takes it from its first cells to
\* them turned, and from them turned back to the first.
BlinkerTurns(o) ==
    LET width  == history[o].args[1]
        height == history[o].args[2]
        first  == AliveSet(width, history[o].origin)
    IN  BlinkersOf(width, height, first) # {} =>
            \E turned \in Turned(width, height, first) :
                /\ TickTakes(o, first, turned)
                /\ TickTakes(o, turned, first)

\* Object o, once a blinker, only ever holds its first cells or them turned.
BlinkerStays(o) ==
    LET width  == history[o].args[1]
        height == history[o].args[2]
        first  == AliveSet(width, history[o].origin)
    IN  BlinkersOf(width, height, first) # {} =>
            AliveSet(width, UniverseOf(o).cells)
                \in {first} \cup Turned(width, height, first)

\* C7 as stated: in every grid.
C7_BlinkerAnyGrid == [][\A o \in ObjIds : BlinkerTurns(o)]_vars

\* C7, amended: in a grid of width and height at least 4, a blinker is after
\* one tick() exactly the same blinker turned a quarter about its middle
\* cell, and after two tick() calls exactly its first cells.
C7_BlinkerFrom4x4 ==
    /\ [](\A o \in LiveObjs :
            (history[o].args[1] >= 4 /\ history[o].args[2] >= 4) => BlinkerStays(o))
    /\ [][\A o \in ObjIds :
            (history[o].args[1] >= 4 /\ history[o].args[2] >= 4) => BlinkerTurns(o)]_vars

\* tick() has run on a blinker lying across the edge of a 4x5 grid and left
\* it turned.
C7_Witness ==
    \E o \in LiveObjs :
        /\ StartedAs(o, 4, 5, BlinkerAt(4, 5, 0, 2, TRUE))
        /\ LastCall("tick", o) /\ ~ret.thrown
        /\ AliveSet(4, UniverseOf(o).cells) = BlinkerAt(4, 5, 0, 2, FALSE)

(***************************************************************************)
(* C8.  The 2x2 block.                                                     *)
(***************************************************************************)
\* The 8 neighbours of a cell are 8 cells, none of them the cell itself: no
\* cell is its own neighbour or twice a neighbour through the wrap-around.
NoSelfWrap(width, height) ==
    Cardinality({<<d[1] % width, d[2] % height>> : d \in Offsets8} \ {<<0, 0>>}) = 8

IsBlock(width, height, alive) ==
    /\ Cardinality(alive) = 4
    /\ \E x \in 0 .. width - 1, y \in 0 .. height - 1 :
           alive = BlockAt(width, height, x, y)

\* C8: in a grid where no cell neighbours itself, a Universe started as one
\* 2x2 block holds exactly its first cells whatever the number of tick() calls.
C8_BlockIsStill ==
    \A o \in LiveObjs :
        LET width  == history[o].args[1]
            height == history[o].args[2]
        IN  (NoSelfWrap(width, height)
             /\ IsBlock(width, height, AliveSet(width, history[o].origin)))
                => UniverseOf(o).cells = history[o].origin

\* tick() has run on a block lying across the corner of a 3x3 grid.
C8_Witness ==
    \E o \in LiveObjs :
        /\ StartedAs(o, 3, 3, BlockAt(3, 3, 2, 2))
        /\ NoSelfWrap(3, 3)
        /\ LastCall("tick", o) /\ ~ret.thrown

(***************************************************************************)
(* C4.  A Universe constructed with positive width and height keeps, over  *)
(* every sequence of calls, the width and height given to new, width *     *)
(* height cells, and in every cell Dead or Alive.                          *)
(***************************************************************************)
C4_ShapeKept ==
    \A o \in LiveObjs :
        LET u      == UniverseOf(o)
            width  == history[o].args[1]
            height == history[o].args[2]
        IN  (width > 0 /\ height > 0) =>
                /\ u.width = width
                /\ u.height = height
                /\ Len(u.cells) = width * height
                /\ \A i \in 1 .. Len(u.cells) : u.cells[i] \in Cell

\* render() has returned for a Universe constructed 1 wide and 2 high, while
\* another Universe has been ticked away from its first grid.
C4_Witness ==
    \E o, q \in LiveObjs :
        /\ history[o].args = <<1, 2>>
        /\ LastCall("render", o) /\ ~ret.thrown
        /\ UniverseOf(q).cells # history[q].origin

(***************************************************************************)
(* C5.  render() changes no Universe and no object, and called twice in a  *)
(* row on an object it returns the same text twice.                        *)
(***************************************************************************)
C5_RenderIsPure ==
    [][\A o \in ObjIds :
          Called("render", o) =>
              /\ universes' = universes
              /\ objs' = objs
              /\ (LastCall("render", o) /\ ~ret.thrown /\ o \in LiveObjs)
                     => (~ret'.thrown /\ ret'.value = ret.value)]_vars

\* render() has returned twice in a row for an object, the engine memory
\* having grown meanwhile.
C5_Witness ==
    \E o \in LiveObjs :
        /\ LastCall("render", o) /\ ret.again
        /\ memory.buffer > 0
        /\ ret.value # <<>>

(***************************************************************************)
(* C6.  The text render() returns has exactly height lines of exactly      *)
(* width glyphs; the glyph at column x of line y is the Alive glyph when   *)
(* the cell at index y * width + x is Alive and the Dead glyph, a          *)
(* different one, otherwise.                                               *)
(***************************************************************************)
\* text.split("\n"), from position i on, cur being the line begun.
RECURSIVE SplitFrom(_, _, _)
SplitFrom(text, i, cur) ==
    IF i > Len(text) THEN <<cur>>
    ELSE IF text[i] = Newline THEN <<cur>> \o SplitFrom(text, i + 1, <<>>)
    ELSE SplitFrom(text, i + 1, Append(cur, text[i]))

LinesOf(text) == SplitFrom(text, 1, <<>>)

\* C6: after render() returned for an object, the text returned has one line
\* for each row and one glyph for each cell of the row, Alive or Dead as the
\* cell is.
C6_RenderFormat ==
    \A o \in LiveObjs :
        LastCall("render", o) =>
            LET u     == UniverseOf(o)
                lines == LinesOf(ret.value)
            IN  /\ ~ret.thrown
                /\ AliveGlyph # DeadGlyph
                /\ Len(lines) = u.height
                /\ \A y \in Rows(u) :
                       /\ Len(lines[y + 1]) = u.width
                       /\ \A x \in Columns(u) :
                              lines[y + 1][x + 1] =
                                  IF u.cells[y * u.width + x + 1] = Alive
                                  THEN AliveGlyph ELSE DeadGlyph

\* render() has returned the text of a grid of 2 columns and 3 rows that
\* holds Alive and Dead cells.
C6_Witness ==
    \E o \in LiveObjs :
        LET u == UniverseOf(o)
        IN  /\ LastCall("render", o) /\ ~ret.thrown
            /\ u.width = 2 /\ u.height = 3
            /\ \E i, j \in 1 .. Len(u.cells) : u.cells[i] = Alive /\ u.cells[j] = Dead

(***************************************************************************)
(* C9.  new with a width or a height that is not positive ends in an error *)
(* and creates no object and no Universe, so every Universe tick() and     *)
(* render() can run on has positive width and height and width * height    *)
(* cells.                                                                  *)
(***************************************************************************)
C9_InvalidNewFails ==
    /\ [](\A p \in UPtrs :
            universes[p].live =>
                /\ universes[p].width > 0 /\ universes[p].height > 0
                /\ Len(universes[p].cells) = universes[p].width * universes[p].height)
    /\ [](\A o \in ObjIds :
            objs[o].ptr # 0 => (history[o].args[1] > 0 /\ history[o].args[2] > 0))
    /\ [][\A width, height \in Args, grow \in BOOLEAN :
            ((width <= 0 \/ height <= 0) /\ New(width, height, grow)) =>
                /\ ret'.thrown
                /\ objs' = objs
                /\ universes' = universes]_vars

\* new has thrown while a Universe constructed before it is in use.
C9_Witness ==
    /\ ret.op = "new" /\ ret.thrown
    /\ ret.value = <<115, 105, 122, 101>>
    /\ LiveObjs # {}

(***************************************************************************)
(* C10.  Whatever calls were made before, tick() can be called on every    *)
(* object whose Universe was constructed and not released, and the call    *)
(* returns without throwing, also on a grid with no Alive cell.            *)
(***************************************************************************)
C10_TickAlwaysRuns ==
    \A o \in LiveObjs :
        /\ ENABLED Tick(o, FALSE)
        /\ LastCall("tick", o) => ~ret.thrown

\* tick() has returned twice in a row for a 1x1 Universe: the second call
\* ran on a grid with no Alive cell.
C10_Witness ==
    \E o \in LiveObjs :
        /\ LastCall("tick", o) /\ ret.again
        /\ history[o].args = <<1, 1>>
        /\ \A i \in 1 .. Len(UniverseOf(o).cells) : UniverseOf(o).cells[i] = Dead

(***************************************************************************)
(* C11.  Two Universes constructed with the same width and height start    *)
(* with the same cells, and have the same cells again whenever the same    *)
(* number of tick() calls was made on each, whatever render() calls were   *)
(* made and in whatever order the calls on the two were made.              *)
(***************************************************************************)
C11_TwinsAgree ==
    Len(objs) = 2 =>
        /\ history[1].args = history[2].args
        /\ history[1].origin = history[2].origin
        /\ lead = 0 => UniverseOf(1).cells = UniverseOf(2).cells

\* Both Universes, 3 wide and 2 high, were ticked the same number of times
\* away from their first cells, and render() has just returned for the second.
C11_Witness ==
    /\ Len(objs) = 2
    /\ history[1].args = <<3, 2>>
    /\ lead = 0
    /\ UniverseOf(1).cells # history[1].origin
    /\ UniverseOf(2).cells # history[2].origin
    /\ LastCall("render", 2) /\ ~ret.thrown

(***************************************************************************)
(* C12.  tick(), render() and free() on one object change neither another  *)
(* object nor the width, height and cells of another object's Universe,    *)
(* and render() returns the grid of the object it is called on, the return *)
(* slot and the cached views being those of the module.                    *)
(***************************************************************************)
\* The lines render() is to return for the Universe u.
GlyphRows(u) ==
    [y \in 1 .. u.height |->
        [x \in 1 .. u.width |->
            IF u.cells[(y - 1) * u.width + x] = Alive
            THEN AliveGlyph ELSE DeadGlyph]]

\* C12: a step that is tick(), render() or free() on an object leaves every
\* other object and its Universe as they were, and a render() step on an
\* object in use returns the lines of that object's grid.
C12_InstancesApart ==
    [][\A o \in ObjIds :
          (Called("tick", o) \/ Called("render", o) \/ Called("free", o)) =>
              /\ \A q \in ObjIds \ {o} :
                     /\ objs'[q] = objs[q]
                     /\ q \in LiveObjs =>
                            universes'[objs[q].ptr] = universes[objs[q].ptr]
              /\ (Called("render", o) /\ o \in LiveObjs) =>
                     /\ ~ret'.thrown
                     /\ LinesOf(ret'.value) = GlyphRows(UniverseOf(o))]_vars

\* Two Universes of different width are in use, the first was ticked away
\* from its first cells, render() had returned for it, and render() has
\* now returned for the second, whose text is another one.
C12_Witness ==
    \E o, q \in LiveObjs :
        /\ o # q
        /\ UniverseOf(o).width # UniverseOf(q).width
        /\ UniverseOf(o).cells # history[o].origin
        /\ cachedGlobalArgumentPtr # null
        /\ LastCall("render", q) /\ ~ret.thrown
        /\ LinesOf(ret.value) = GlyphRows(UniverseOf(q))
        /\ LinesOf(ret.value) # GlyphRows(UniverseOf(o))

(***************************************************************************)
(* C13.  index.js: every frame calls render() once, then tick() once, then *)
(* requests the next frame.  The calls alternate, beginning with render(): *)
(* tick() is only called on a generation that render() has just returned   *)
(* and that is displayed, render() only on a generation not displayed yet  *)
(* (just constructed or just ticked); one frame is requested whenever no   *)
(* script runs, and none while renderLoop runs: each frame requests the     *)
(* next one, and no call of the loop throws.                               *)
(***************************************************************************)
C13_RenderThenTick ==
    /\ pc = "tick" =>
           /\ LastCall("render", 1) /\ ~ret.thrown
           /\ LinesOf(textContent) = GlyphRows(UniverseOf(1))
    /\ pc = "render" => (ret.op \in {"new", "tick"} /\ ~ret.thrown)
    /\ pc = "request" =>
           /\ ~ret.thrown
           /\ ret.op = "new" \/ LastCall("tick", 1)
    /\ frames = (IF pc = "idle" THEN 1 ELSE 0)

\* renderLoop is about to call tick() in a later frame: the grid, which is
\* no longer the first one, is displayed, and the frame before it grew the
\* engine memory.
C13_Witness ==
    /\ pc = "tick"
    /\ frames = 0
    /\ memory.buffer > 0
    /\ UniverseOf(1).cells # history[1].origin
    /\ LinesOf(textContent) = GlyphRows(UniverseOf(1))

(***************************************************************************)
(* C14.  free() hands the object's pointer to the engine's free routine    *)
(* and leaves 0 in the object; what tick(), render() and free() do on the  *)
(* object afterwards.                                                      *)
(***************************************************************************)
\* The exports that take the pointer of a Universe, as their last argument.
OnUniverse == {"universe_tick", "universe_render", "__wbg_universe_free"}

\* The pointers of Universes handed to the engine by the calls in log.
PtrsPassed(log) ==
    {log[i].args[Len(log[i].args)] : i \in {j \in DOMAIN log : log[j].fn \in OnUniverse}}

\* C14: a call on a released object is stopped by a guard before it reaches
\* the engine, so the engine is never called with the pointer 0 or with the
\* pointer of a Universe that is released.
C14_GuardBeforeEngine ==
    [][\A p \in PtrsPassed(calls') : ValidPtr(universes, p)]_vars

\* C14, what the binding does: free() on an object in use calls the engine's
\* free routine once, with the object's pointer, and leaves 0 in the object; an object
\* holds 0 or the pointer of a Universe in use that no other object holds;
\* tick(), render() and free() on a released object reach the engine with the
\* pointer 0 and nothing else, throw, and change no Universe and no object.
C14_ReleasedOnce ==
    /\ [](\A o \in ObjIds :
            \/ objs[o].ptr = 0
            \/ /\ ValidPtr(universes, objs[o].ptr)
               /\ \A q \in ObjIds \ {o} : objs[q].ptr # objs[o].ptr)
    /\ [][\A o \in ObjIds :
            /\ (Called("free", o) /\ objs[o].ptr # 0) =>
                   /\ ~ret'.thrown
                   /\ calls' = <<Call("__wbg_universe_free", <<objs[o].ptr>>)>>
                   /\ objs' = [objs EXCEPT ![o].ptr = 0]
                   /\ universes' = [universes EXCEPT ![objs[o].ptr] = NoUniverse]
            /\ ((Called("tick", o) \/ Called("render", o) \/ Called("free", o))
                    /\ objs[o].ptr = 0) =>
                   /\ ret'.thrown
                   /\ PtrsPassed(calls') = {0}
                   /\ universes' = universes
                   /\ objs' = objs]_vars

\* tick() has thrown on a released object, the engine having been called
\* with 0, while the pointer the object held is that of a Universe
\* constructed later for another object.
C14_Witness ==
    \E o \in ObjIds, q \in LiveObjs :
        /\ objs[o].ptr = 0
        /\ o < q
        /\ objs[q].ptr = 1
        /\ LastCall("tick", o) /\ ret.thrown
        /\ calls = <<Call("universe_tick", <<0>>)>>

(***************************************************************************)
(* C15.  getUint8Memory() and getUint32Memory() return a view of the       *)
(* buffer the engine memory has when they are called, whatever buffer the  *)
(* cached view is of; render() reads the return slot and the string        *)
(* through views of the buffer the memory has once the engine's render     *)
(* call returned, and an error message is read through such a view too.    *)
(***************************************************************************)
\* C15: in every state, both getters return a view of the current buffer; a
\* render() step leaves in both caches the views it read through, which are
\* views of the buffer left by the engine's call in that step; a call that
\* throws leaves the Uint8Array it read the message through, a current one.
C15_ViewsAreCurrent ==
    /\ [](/\ getUint8Memory(cachegetUint8Memory, memory) = memory.buffer
          /\ getUint32Memory(cachegetUint32Memory, memory) = memory.buffer)
    /\ [][\A o \in ObjIds :
            /\ (Called("render", o) /\ ~ret'.thrown) =>
                   /\ cachegetUint32Memory' = memory'.buffer
                   /\ cachegetUint8Memory' = memory'.buffer
                   /\ LinesOf(ret'.value) = GlyphRows(UniverseOf(o))
            /\ ret'.thrown =>
                   /\ cachegetUint8Memory' = memory'.buffer
                   /\ ret'.value = MsgBytes]_vars

\* render() has returned twice in a row for an object (the views were cached
\* by the first call at the latest); the memory has grown, and both cached
\* views are of the buffer it has now.
C15_Witness ==
    \E o \in LiveObjs :
        /\ LastCall("render", o) /\ ret.again
        /\ memory.buffer = MaxGrow
        /\ cachegetUint32Memory = memory.buffer
        /\ cachegetUint8Memory = memory.buffer
        /\ calls[1].fn = "universe_render"

(***************************************************************************)
(* C16.  render() decodes the string the engine produced while the engine  *)
(* memory still holds it, then releases it: one __wbindgen_free call, the  *)
(* last call of render(), with the pointer and the length the engine left  *)
(* in the return slot.  A render() that throws releases nothing, and       *)
(* between calls no string is left in the engine memory.                   *)
(***************************************************************************)
\* The positions in log of the calls of __wbindgen_free.
Frees(log) == {i \in DOMAIN log : log[i].fn = "__wbindgen_free"}

\* The word at address ptr of the memory mem.
WordAt(mem, ptr) == ReadU32(mem.buffer, mem, WordIndex(ptr))

\* C16: between calls the string area holds no content; a render() step that
\* returns called universe_render and then, last and once, __wbindgen_free
\* with the two words of the return slot, and the text returned is the
\* string of that length and holds no character of a malformed read; a
\* render() step that throws called no __wbindgen_free.
C16_StringCopiedThenFreed ==
    /\ [](\A i \in StrPtr + 1 .. Len(memory.bytes) : memory.bytes[i] = Released)
    /\ [][\A o \in ObjIds :
            Called("render", o) =>
                IF ret'.thrown
                THEN Frees(calls') = {}
                ELSE /\ Frees(calls') = {Len(calls')}
                     /\ Len(calls') >= 2
                     /\ calls'[Len(calls') - 1] =
                            Call("universe_render", <<RetPtr, objs[o].ptr>>)
                     /\ calls'[Len(calls')].args =
                            <<WordAt(memory', RetPtr), WordAt(memory', RetPtr + 4)>>
                     /\ Len(Utf8EncodeAll(ret'.value)) = WordAt(memory', RetPtr + 4)
                     /\ \A i \in DOMAIN ret'.value : ret'.value[i] # Replacement
                     /\ LinesOf(ret'.value) = GlyphRows(UniverseOf(o))]_vars

\* render() has returned the text of a 2x2 grid: its last call released the
\* string, and the string area holds no content.
C16_Witness ==
    \E o \in LiveObjs :
        /\ LastCall("render", o) /\ ~ret.thrown
        /\ UniverseOf(o).width = 2 /\ UniverseOf(o).height = 2
        /\ calls[Len(calls)] = Call("__wbindgen_free", <<StrPtr, TextBytes(2, 2)>>)
        /\ Len(ret.value) = 5
        /\ memory.bytes[StrPtr + 1] = Released

=============================================================================
